---- MODULE Spec2Model ----
(***************************************************************************)
(* A model of the solana_escrow Anchor program                             *)
(* (programs/solana-escrow/src/lib.rs): the escrow records, the SPL token  *)
(* accounts they move funds between, and the three instructions            *)
(* initialize, release and cancel.                                         *)
(*                                                                         *)
(* An instruction is processed in two phases, as Anchor generates them:    *)
(* the #[derive(Accounts)] validation of the accounts the client passes    *)
(* (which also creates the `init` accounts), then the handler.  The        *)
(* runtime commits the effects of an instruction only if it returns Ok,    *)
(* and processes the transactions that write the same account one at a     *)
(* time.                                                                   *)
(*                                                                         *)
(* The source does not fix the Anchor release the program is built with.   *)
(* Releases from 0.32 on reject an instruction that passes the same account *)
(* for two `mut` fields (ConstraintDuplicateMutableAccount); earlier ones  *)
(* accept it.  Both builds are modelled: dup_check is chosen in the        *)
(* initial state and never changes.                                        *)
(*                                                                         *)
(* Not modelled: lamports and rent, the bump seeds (a function of the      *)
(* address), the mint's decimals (the handlers pass the mint's own), the   *)
(* choice between the two token programs, frozen token accounts, and       *)
(* transfers made by other programs.                                       *)
(***************************************************************************)
EXTENDS Integers, FiniteSets, Sequences, TLC

\* ------------------------------------------------------------------------
\* Bounds of the model
\* ------------------------------------------------------------------------
MaxAmount == 2      \* the amounts passed to initialize are 0..MaxAmount
MaxClock == 2       \* the clock advances from 0 up to MaxClock
MaxEscrows == 2     \* new records are created while fewer than this exist

Users == {"u1", "u2"}
Mints == {"m1", "m2"}

\* ------------------------------------------------------------------------
\* Program constants
\* ------------------------------------------------------------------------
MAX_DEADLINE_SECS == 90 * 24 * 60 * 60

\* ------------------------------------------------------------------------
\* Public keys are strings: a wallet "u1", a mint "m1", the token account
\* "u1.m1" of wallet u1 for mint m1.  A program derived address is an
\* injective function of its seeds.
\* ------------------------------------------------------------------------
DefaultPubkey == ""

TokenKey(u, m) == u \o "." \o m

\* seeds = [b"escrow", buyer, seller, mint]
EscrowPda(buyer, seller, mint) ==
    "escrow/" \o buyer \o "/" \o seller \o "/" \o mint

\* seeds = [b"vault", escrow]
VaultPda(escrow) == "vault/" \o escrow

VARIABLES
    escrows,    \* the Escrow accounts: escrow key -> Escrow
    tokens,     \* the token accounts: key -> [mint, owner, amount]
    clock,      \* Clock::unix_timestamp
    txs,        \* the transactions in flight: slot -> call, status, result
    moved,      \* history: escrow key -> units that left its vault so far
    succ,       \* history: escrow key -> successful release/cancel so far
    dup_check   \* the build rejects one account passed for two `mut` fields

vars == <<escrows, tokens, clock, txs, moved, succ, dup_check>>

\* The accounts an instruction reads and writes.
State == [escrows |-> escrows, tokens |-> tokens]

\* Result<()>, with the accounts as the instruction leaves them.
Ok(s) == [err |-> "", st |-> s]
Err(e, s) == [err |-> e, st |-> s]

\* ------------------------------------------------------------------------
\* The token program's transfer_checked, as the handlers call it;
\* `signers` are the keys that sign the inner instruction.  A transfer from
\* an account to itself succeeds and moves nothing.
\* ------------------------------------------------------------------------
\* Mutant: a transfer from an account to itself credits it.
transfer_checked_SelfCredit(st, from, mint, to, authority, signers, amount) ==
    LET tk == st.tokens IN
    IF from \notin DOMAIN tk \/ to \notin DOMAIN tk
        THEN Err("InvalidAccountData", st)
    ELSE IF tk[from].amount < amount
        THEN Err("InsufficientFunds", st)
    ELSE IF tk[from].mint # mint \/ tk[to].mint # mint
        THEN Err("MintMismatch", st)
    ELSE IF tk[from].owner # authority \/ authority \notin signers
        THEN Err("OwnerMismatch", st)
    ELSE IF from = to
        THEN Ok([st EXCEPT !.tokens = [tk EXCEPT ![to].amount = @ + amount]])
    ELSE Ok([st EXCEPT !.tokens = [tk EXCEPT
                ![from].amount = @ - amount,
                ![to].amount = @ + amount]])

\* The token program's transfer_checked.
transfer_checked(st, from, mint, to, authority, signers, amount) ==
    LET tk == st.tokens IN
    IF from \notin DOMAIN tk \/ to \notin DOMAIN tk
        THEN Err("InvalidAccountData", st)
    ELSE IF tk[from].amount < amount
        THEN Err("InsufficientFunds", st)
    ELSE IF tk[from].mint # mint \/ tk[to].mint # mint
        THEN Err("MintMismatch", st)
    ELSE IF tk[from].owner # authority \/ authority \notin signers
        THEN Err("OwnerMismatch", st)
    ELSE IF from = to
        THEN Ok(st)
    ELSE Ok([st EXCEPT !.tokens = [tk EXCEPT
                ![from].amount = @ - amount,
                ![to].amount = @ + amount]])

\* ------------------------------------------------------------------------
\* initialize
\* ------------------------------------------------------------------------
\* A freshly allocated Escrow account: zeroed data.
ZeroedEscrow ==
    [buyer |-> DefaultPubkey, seller |-> DefaultPubkey,
     mint |-> DefaultPubkey, amount |-> 0, deadline |-> 0,
     state |-> "Locked"]

\* The two `init` accounts of Initialize, created.
InitAccounts(st, ctx) ==
    [escrows |-> [k \in DOMAIN st.escrows \cup {ctx.escrow} |->
                    IF k = ctx.escrow THEN ZeroedEscrow ELSE st.escrows[k]],
     tokens |-> [k \in DOMAIN st.tokens \cup {ctx.vault} |->
                    IF k = ctx.vault
                        THEN [mint |-> ctx.mint, owner |-> ctx.vault,
                              amount |-> 0]
                        ELSE st.tokens[k]]]

\* Mutant: the escrow and the vault declared init_if_needed.
InitializeAccounts_IfNeeded(st, ctx) ==
    IF ~ctx.signed
        THEN Err("AccountNotSigner", st)
    ELSE IF ctx.buyer_token_account \notin DOMAIN st.tokens
        THEN Err("AccountNotInitialized", st)
    ELSE IF ctx.escrow # EscrowPda(ctx.buyer, ctx.seller, ctx.mint)
        THEN Err("ConstraintSeeds", st)
    ELSE IF ctx.vault # VaultPda(ctx.escrow)
        THEN Err("ConstraintSeeds", st)
    ELSE IF st.tokens[ctx.buyer_token_account].mint # ctx.mint
        THEN Err("ConstraintTokenMint", st)
    ELSE IF st.tokens[ctx.buyer_token_account].owner # ctx.buyer
        THEN Err("ConstraintTokenOwner", st)
    ELSE Ok([escrows |-> [k \in DOMAIN st.escrows \cup {ctx.escrow} |->
                            IF k \in DOMAIN st.escrows
                                THEN st.escrows[k] ELSE ZeroedEscrow],
             tokens |-> [k \in DOMAIN st.tokens \cup {ctx.vault} |->
                            IF k \in DOMAIN st.tokens
                                THEN st.tokens[k]
                                ELSE [mint |-> ctx.mint, owner |-> ctx.vault,
                                      amount |-> 0]]])

\* #[derive(Accounts)] struct Initialize: the accounts are loaded in the
\* order of the fields, the `init` accounts are created as they are met,
\* and the other constraints are checked last.
InitializeAccounts(st, ctx) ==
    IF ~ctx.signed
        THEN Err("AccountNotSigner", st)
    ELSE IF ctx.buyer_token_account \notin DOMAIN st.tokens
        THEN Err("AccountNotInitialized", st)
    ELSE IF ctx.escrow # EscrowPda(ctx.buyer, ctx.seller, ctx.mint)
        THEN Err("ConstraintSeeds", st)
    ELSE IF ctx.escrow \in DOMAIN st.escrows
        THEN Err("AccountAlreadyInUse", st)
    ELSE IF ctx.vault # VaultPda(ctx.escrow)
        THEN Err("ConstraintSeeds", st)
    ELSE IF ctx.vault \in DOMAIN st.tokens
        THEN Err("AccountAlreadyInUse", st)
    ELSE IF st.tokens[ctx.buyer_token_account].mint # ctx.mint
        THEN Err("ConstraintTokenMint", st)
    ELSE IF st.tokens[ctx.buyer_token_account].owner # ctx.buyer
        THEN Err("ConstraintTokenOwner", st)
    ELSE Ok(InitAccounts(st, ctx))

\* Mutant: the horizon excluded, deadline < now + MAX_DEADLINE_SECS.
initialize_ExclusiveHorizon(st, ctx, amount, deadline, now) ==
    IF ~(amount > 0)
        THEN Err("ZeroAmount", st)
    ELSE IF ~(deadline > now)
        THEN Err("DeadlineInPast", st)
    ELSE IF ~(deadline < now + MAX_DEADLINE_SECS)
        THEN Err("DeadlineTooFar", st)
    ELSE
        LET populated == [st EXCEPT !.escrows[ctx.escrow] =
                            [buyer |-> ctx.buyer, seller |-> ctx.seller,
                             mint |-> ctx.mint, amount |-> amount,
                             deadline |-> deadline, state |-> "Locked"]]
        IN transfer_checked(populated, ctx.buyer_token_account, ctx.mint,
                            ctx.vault, ctx.buyer, {ctx.buyer}, amount)

\* Mutant: the require! on the amount left out.
initialize_NoZeroCheck(st, ctx, amount, deadline, now) ==
    IF ~(deadline > now)
        THEN Err("DeadlineInPast", st)
    ELSE IF ~(deadline <= now + MAX_DEADLINE_SECS)
        THEN Err("DeadlineTooFar", st)
    ELSE
        LET populated == [st EXCEPT !.escrows[ctx.escrow] =
                            [buyer |-> ctx.buyer, seller |-> ctx.seller,
                             mint |-> ctx.mint, amount |-> amount,
                             deadline |-> deadline, state |-> "Locked"]]
        IN transfer_checked(populated, ctx.buyer_token_account, ctx.mint,
                            ctx.vault, ctx.buyer, {ctx.buyer}, amount)

\* Mutant: the require! deadline > now left out.
initialize_NoPastCheck(st, ctx, amount, deadline, now) ==
    IF ~(amount > 0)
        THEN Err("ZeroAmount", st)
    ELSE IF ~(deadline <= now + MAX_DEADLINE_SECS)
        THEN Err("DeadlineTooFar", st)
    ELSE
        LET populated == [st EXCEPT !.escrows[ctx.escrow] =
                            [buyer |-> ctx.buyer, seller |-> ctx.seller,
                             mint |-> ctx.mint, amount |-> amount,
                             deadline |-> deadline, state |-> "Locked"]]
        IN transfer_checked(populated, ctx.buyer_token_account, ctx.mint,
                            ctx.vault, ctx.buyer, {ctx.buyer}, amount)

\* Mutant: the require! on the 90 day horizon left out.
initialize_NoHorizonCheck(st, ctx, amount, deadline, now) ==
    IF ~(amount > 0)
        THEN Err("ZeroAmount", st)
    ELSE IF ~(deadline > now)
        THEN Err("DeadlineInPast", st)
    ELSE
        LET populated == [st EXCEPT !.escrows[ctx.escrow] =
                            [buyer |-> ctx.buyer, seller |-> ctx.seller,
                             mint |-> ctx.mint, amount |-> amount,
                             deadline |-> deadline, state |-> "Locked"]]
        IN transfer_checked(populated, ctx.buyer_token_account, ctx.mint,
                            ctx.vault, ctx.buyer, {ctx.buyer}, amount)

\* Mutant: the deadline checked before the amount.
initialize_DeadlineFirst(st, ctx, amount, deadline, now) ==
    IF ~(deadline > now)
        THEN Err("DeadlineInPast", st)
    ELSE IF ~(deadline <= now + MAX_DEADLINE_SECS)
        THEN Err("DeadlineTooFar", st)
    ELSE IF ~(amount > 0)
        THEN Err("ZeroAmount", st)
    ELSE
        LET populated == [st EXCEPT !.escrows[ctx.escrow] =
                            [buyer |-> ctx.buyer, seller |-> ctx.seller,
                             mint |-> ctx.mint, amount |-> amount,
                             deadline |-> deadline, state |-> "Locked"]]
        IN transfer_checked(populated, ctx.buyer_token_account, ctx.mint,
                            ctx.vault, ctx.buyer, {ctx.buyer}, amount)

\* pub fn initialize(ctx, amount, deadline); now is Clock::get()'s
\* unix_timestamp.
initialize(st, ctx, amount, deadline, now) ==
    IF ~(amount > 0)
        THEN Err("ZeroAmount", st)
    ELSE IF ~(deadline > now)
        THEN Err("DeadlineInPast", st)
    ELSE IF ~(deadline <= now + MAX_DEADLINE_SECS)
        THEN Err("DeadlineTooFar", st)
    ELSE
        LET populated == [st EXCEPT !.escrows[ctx.escrow] =
                            [buyer |-> ctx.buyer, seller |-> ctx.seller,
                             mint |-> ctx.mint, amount |-> amount,
                             deadline |-> deadline, state |-> "Locked"]]
        IN transfer_checked(populated, ctx.buyer_token_account, ctx.mint,
                            ctx.vault, ctx.buyer, {ctx.buyer}, amount)

\* ------------------------------------------------------------------------
\* release
\* ------------------------------------------------------------------------
\* Mutant: the buyer declared an UncheckedAccount, no signature asked.
ReleaseAccounts_NoSigner(st, ctx) ==
    IF ctx.escrow \notin DOMAIN st.escrows
        THEN Err("AccountNotInitialized", st)
    ELSE IF ctx.vault \notin DOMAIN st.tokens
        THEN Err("AccountNotInitialized", st)
    ELSE IF ctx.seller_token_account \notin DOMAIN st.tokens
        THEN Err("AccountNotInitialized", st)
    ELSE IF dup_check /\ ctx.vault = ctx.seller_token_account
        THEN Err("ConstraintDuplicateMutableAccount", st)
    ELSE IF st.escrows[ctx.escrow].buyer # ctx.buyer
        THEN Err("ConstraintHasOne", st)
    ELSE IF st.escrows[ctx.escrow].mint # ctx.mint
        THEN Err("ConstraintHasOne", st)
    ELSE IF ctx.escrow # EscrowPda(ctx.buyer, st.escrows[ctx.escrow].seller,
                                   st.escrows[ctx.escrow].mint)
        THEN Err("ConstraintSeeds", st)
    ELSE IF ctx.vault # VaultPda(ctx.escrow)
        THEN Err("ConstraintSeeds", st)
    ELSE IF st.tokens[ctx.seller_token_account].mint # ctx.mint
        THEN Err("ConstraintTokenMint", st)
    ELSE Ok(st)

\* Mutant: token::mint = mint left out of the seller's token account.
ReleaseAccounts_NoTokenMint(st, ctx) ==
    IF ~ctx.signed
        THEN Err("AccountNotSigner", st)
    ELSE IF ctx.escrow \notin DOMAIN st.escrows
        THEN Err("AccountNotInitialized", st)
    ELSE IF ctx.vault \notin DOMAIN st.tokens
        THEN Err("AccountNotInitialized", st)
    ELSE IF ctx.seller_token_account \notin DOMAIN st.tokens
        THEN Err("AccountNotInitialized", st)
    ELSE IF dup_check /\ ctx.vault = ctx.seller_token_account
        THEN Err("ConstraintDuplicateMutableAccount", st)
    ELSE IF st.escrows[ctx.escrow].buyer # ctx.buyer
        THEN Err("ConstraintHasOne", st)
    ELSE IF st.escrows[ctx.escrow].mint # ctx.mint
        THEN Err("ConstraintHasOne", st)
    ELSE IF ctx.escrow # EscrowPda(ctx.buyer, st.escrows[ctx.escrow].seller,
                                   st.escrows[ctx.escrow].mint)
        THEN Err("ConstraintSeeds", st)
    ELSE IF ctx.vault # VaultPda(ctx.escrow)
        THEN Err("ConstraintSeeds", st)
    ELSE Ok(st)

\* #[derive(Accounts)] struct Release.  The seller's token account is
\* constrained by its mint alone.
ReleaseAccounts(st, ctx) ==
    IF ~ctx.signed
        THEN Err("AccountNotSigner", st)
    ELSE IF ctx.escrow \notin DOMAIN st.escrows
        THEN Err("AccountNotInitialized", st)
    ELSE IF ctx.vault \notin DOMAIN st.tokens
        THEN Err("AccountNotInitialized", st)
    ELSE IF ctx.seller_token_account \notin DOMAIN st.tokens
        THEN Err("AccountNotInitialized", st)
    ELSE IF dup_check /\ ctx.vault = ctx.seller_token_account
        THEN Err("ConstraintDuplicateMutableAccount", st)
    ELSE IF st.escrows[ctx.escrow].buyer # ctx.buyer
        THEN Err("ConstraintHasOne", st)
    ELSE IF st.escrows[ctx.escrow].mint # ctx.mint
        THEN Err("ConstraintHasOne", st)
    ELSE IF ctx.escrow # EscrowPda(ctx.buyer, st.escrows[ctx.escrow].seller,
                                   st.escrows[ctx.escrow].mint)
        THEN Err("ConstraintSeeds", st)
    ELSE IF ctx.vault # VaultPda(ctx.escrow)
        THEN Err("ConstraintSeeds", st)
    ELSE IF st.tokens[ctx.seller_token_account].mint # ctx.mint
        THEN Err("ConstraintTokenMint", st)
    ELSE Ok(st)

\* Mutant: the require! on the state left out.
release_Unguarded(st, ctx) ==
    LET amount == st.escrows[ctx.escrow].amount
        signer == {VaultPda(ctx.escrow)}
        t == transfer_checked(st, ctx.vault, ctx.mint,
                              ctx.seller_token_account, ctx.vault,
                              signer, amount)
    IN IF t.err # ""
        THEN t
        ELSE Ok([t.st EXCEPT !.escrows[ctx.escrow].state = "Released"])

\* Mutant: the amount of the record cleared once it is paid out.
release_ClearsAmount(st, ctx) ==
    IF ~(st.escrows[ctx.escrow].state = "Locked")
        THEN Err("NotLocked", st)
    ELSE
        LET amount == st.escrows[ctx.escrow].amount
            signer == {VaultPda(ctx.escrow)}
            t == transfer_checked(st, ctx.vault, ctx.mint,
                                  ctx.seller_token_account, ctx.vault,
                                  signer, amount)
        IN IF t.err # ""
            THEN t
            ELSE Ok([t.st EXCEPT !.escrows[ctx.escrow].state = "Released",
                                 !.escrows[ctx.escrow].amount = 0])

\* pub fn release(ctx)
release(st, ctx) ==
    IF ~(st.escrows[ctx.escrow].state = "Locked")
        THEN Err("NotLocked", st)
    ELSE
        LET amount == st.escrows[ctx.escrow].amount
            signer == {VaultPda(ctx.escrow)}
            t == transfer_checked(st, ctx.vault, ctx.mint,
                                  ctx.seller_token_account, ctx.vault,
                                  signer, amount)
        IN IF t.err # ""
            THEN t
            ELSE Ok([t.st EXCEPT !.escrows[ctx.escrow].state = "Released"])

\* ------------------------------------------------------------------------
\* cancel
\* ------------------------------------------------------------------------
\* Mutant: the buyer's token account constrained by its mint alone.
CancelAccounts_NoAuthority(st, ctx) ==
    IF ~ctx.signed
        THEN Err("AccountNotSigner", st)
    ELSE IF ctx.escrow \notin DOMAIN st.escrows
        THEN Err("AccountNotInitialized", st)
    ELSE IF ctx.vault \notin DOMAIN st.tokens
        THEN Err("AccountNotInitialized", st)
    ELSE IF ctx.buyer_token_account \notin DOMAIN st.tokens
        THEN Err("AccountNotInitialized", st)
    ELSE IF st.escrows[ctx.escrow].buyer # ctx.buyer
        THEN Err("ConstraintHasOne", st)
    ELSE IF st.escrows[ctx.escrow].mint # ctx.mint
        THEN Err("ConstraintHasOne", st)
    ELSE IF ctx.escrow # EscrowPda(ctx.buyer, st.escrows[ctx.escrow].seller,
                                   st.escrows[ctx.escrow].mint)
        THEN Err("ConstraintSeeds", st)
    ELSE IF ctx.vault # VaultPda(ctx.escrow)
        THEN Err("ConstraintSeeds", st)
    ELSE IF st.tokens[ctx.buyer_token_account].mint # ctx.mint
        THEN Err("ConstraintTokenMint", st)
    ELSE Ok(st)

\* #[derive(Accounts)] struct Cancel
CancelAccounts(st, ctx) ==
    IF ~ctx.signed
        THEN Err("AccountNotSigner", st)
    ELSE IF ctx.escrow \notin DOMAIN st.escrows
        THEN Err("AccountNotInitialized", st)
    ELSE IF ctx.vault \notin DOMAIN st.tokens
        THEN Err("AccountNotInitialized", st)
    ELSE IF ctx.buyer_token_account \notin DOMAIN st.tokens
        THEN Err("AccountNotInitialized", st)
    ELSE IF st.escrows[ctx.escrow].buyer # ctx.buyer
        THEN Err("ConstraintHasOne", st)
    ELSE IF st.escrows[ctx.escrow].mint # ctx.mint
        THEN Err("ConstraintHasOne", st)
    ELSE IF ctx.escrow # EscrowPda(ctx.buyer, st.escrows[ctx.escrow].seller,
                                   st.escrows[ctx.escrow].mint)
        THEN Err("ConstraintSeeds", st)
    ELSE IF ctx.vault # VaultPda(ctx.escrow)
        THEN Err("ConstraintSeeds", st)
    ELSE IF st.tokens[ctx.buyer_token_account].mint # ctx.mint
        THEN Err("ConstraintTokenMint", st)
    ELSE IF st.tokens[ctx.buyer_token_account].owner # ctx.buyer
        THEN Err("ConstraintTokenOwner", st)
    ELSE Ok(st)

\* Mutant: the refund allowed only once the deadline has passed.
cancel_AfterDeadline(st, ctx) ==
    IF ~(st.escrows[ctx.escrow].state = "Locked")
        THEN Err("NotLocked", st)
    ELSE IF ~(clock > st.escrows[ctx.escrow].deadline)
        THEN Err("DeadlineNotReached", st)
    ELSE
        LET amount == st.escrows[ctx.escrow].amount
            signer == {VaultPda(ctx.escrow)}
            t == transfer_checked(st, ctx.vault, ctx.mint,
                                  ctx.buyer_token_account, ctx.vault,
                                  signer, amount)
        IN IF t.err # ""
            THEN t
            ELSE Ok([t.st EXCEPT !.escrows[ctx.escrow].state = "Cancelled"])

\* pub fn cancel(ctx)
cancel(st, ctx) ==
    IF ~(st.escrows[ctx.escrow].state = "Locked")
        THEN Err("NotLocked", st)
    ELSE
        LET amount == st.escrows[ctx.escrow].amount
            signer == {VaultPda(ctx.escrow)}
            t == transfer_checked(st, ctx.vault, ctx.mint,
                                  ctx.buyer_token_account, ctx.vault,
                                  signer, amount)
        IN IF t.err # ""
            THEN t
            ELSE Ok([t.st EXCEPT !.escrows[ctx.escrow].state = "Cancelled"])

\* ------------------------------------------------------------------------
\* Instruction processing: the accounts validation, then the handler; the
\* effects are committed only when the instruction returns Ok.
\* ------------------------------------------------------------------------
\* Mutant: the effects of a failed instruction are kept.
Commit_NoRollback(pre, r) == r.st

Commit(pre, r) == IF r.err = "" THEN r.st ELSE pre

InitializeCtx(c) ==
    [buyer |-> c.buyer, signed |-> c.signed, seller |-> c.seller,
     mint |-> c.mint, buyer_token_account |-> c.account,
     escrow |-> c.escrow, vault |-> c.vault]

ReleaseCtx(c) ==
    [buyer |-> c.buyer, signed |-> c.signed, mint |-> c.mint,
     escrow |-> c.escrow, vault |-> c.vault,
     seller_token_account |-> c.account]

CancelCtx(c) ==
    [buyer |-> c.buyer, signed |-> c.signed, mint |-> c.mint,
     escrow |-> c.escrow, vault |-> c.vault,
     buyer_token_account |-> c.account]

\* The result of the accounts validation of call c in state st.
Accounts(st, c) ==
    IF c.op = "initialize" THEN InitializeAccounts(st, InitializeCtx(c))
    ELSE IF c.op = "release" THEN ReleaseAccounts(st, ReleaseCtx(c))
    ELSE CancelAccounts(st, CancelCtx(c))

\* The instruction of call c, dispatched by the program at time now.
Dispatch(st, c, now) ==
    LET a == Accounts(st, c) IN
    IF a.err # "" THEN a
    ELSE IF c.op = "initialize"
        THEN initialize(a.st, InitializeCtx(c), c.amount, c.deadline, now)
    ELSE IF c.op = "release" THEN release(a.st, ReleaseCtx(c))
    ELSE cancel(a.st, CancelCtx(c))

\* ------------------------------------------------------------------------
\* Initial state and actions
\* ------------------------------------------------------------------------
Slots == {1, 2}

NoCall == [op |-> "none", buyer |-> DefaultPubkey, signed |-> FALSE,
           seller |-> DefaultPubkey, mint |-> DefaultPubkey,
           escrow |-> DefaultPubkey, vault |-> DefaultPubkey,
           account |-> DefaultPubkey, amount |-> 0, deadline |-> 0]

\* What stays of a call once it is processed: the instruction, who asked for
\* it, its record and its arguments.
Receipt(c) == [NoCall EXCEPT !.op = c.op, !.escrow = c.escrow,
                             !.buyer = c.buyer, !.signed = c.signed,
                             !.amount = c.amount, !.deadline = c.deadline]

Empty == [call |-> NoCall, status |-> "empty", err |-> ""]

\* Wallet u1 holds two units of mint m1; every other token account is empty.
InitBalance(u, m) == IF u = "u1" /\ m = "m1" THEN 2 ELSE 0

\* Every wallet has a token account for every mint; no escrow exists.
Init ==
    /\ escrows = << >>
    /\ tokens = [k \in {TokenKey(u, m) : u \in Users, m \in Mints} |->
                    LET p == CHOOSE p \in Users \X Mints :
                                 TokenKey(p[1], p[2]) = k
                    IN [mint |-> p[2], owner |-> p[1],
                        amount |-> InitBalance(p[1], p[2])]]
    /\ clock = 0
    /\ txs = [i \in Slots |-> Empty]
    /\ moved = << >>
    /\ succ = << >>
    /\ dup_check \in BOOLEAN

\* The deadlines clients ask for: the instants around the first tick of the
\* clock, and those around the 90 day horizon of its last tick.
Deadlines ==
    {1, MaxClock, MaxClock + MAX_DEADLINE_SECS, MaxClock + MAX_DEADLINE_SECS + 1}

\* The vaults created so far: the token accounts that are their own authority.
Vaults == {k \in DOMAIN tokens : tokens[k].owner = k}

\* Initialize calls: every buyer, seller, mint, amount and deadline with the
\* buyer's signature and the buyer's own token account of the mint; and,
\* with an amount and a deadline the handler accepts, every other token
\* account and the missing signature.
InitializeCall(buyer, signed, seller, mint, src, amount, deadline) ==
    [op |-> "initialize", buyer |-> buyer, signed |-> signed,
     seller |-> seller, mint |-> mint,
     escrow |-> EscrowPda(buyer, seller, mint),
     vault |-> VaultPda(EscrowPda(buyer, seller, mint)),
     account |-> src, amount |-> amount, deadline |-> deadline]

InitializeCalls ==
    {InitializeCall(buyer, TRUE, seller, mint, TokenKey(buyer, mint),
                    amount, deadline) :
        buyer \in Users, seller \in Users, mint \in Mints,
        amount \in 0..MaxAmount, deadline \in Deadlines}
    \cup
    {c \in {InitializeCall(buyer, signed, seller, mint, src, 1,
                            MaxClock + 1) :
                buyer \in Users, signed \in BOOLEAN, seller \in Users,
                mint \in Mints, src \in DOMAIN tokens} :
        ~c.signed \/ c.account # TokenKey(c.buyer, c.mint)}

\* Release and cancel calls on an existing record: every buyer, mint and
\* destination with the signature and the record's vault; and, with the
\* record's buyer and mint, the missing signature and every other vault.
SettleCall(op, buyer, signed, mint, escrow, vault, dst) ==
    [op |-> op, buyer |-> buyer, signed |-> signed,
     seller |-> DefaultPubkey, mint |-> mint, escrow |-> escrow,
     vault |-> vault, account |-> dst, amount |-> 0, deadline |-> 0]

SettleCalls(op) ==
    {SettleCall(op, buyer, TRUE, mint, escrow, VaultPda(escrow), dst) :
        buyer \in Users, mint \in Mints, escrow \in DOMAIN escrows,
        dst \in DOMAIN tokens}
    \cup
    {SettleCall(op, escrows[pair[1]].buyer, pair[2] # VaultPda(pair[1]),
                escrows[pair[1]].mint, pair[1], pair[2], dst) :
        pair \in (DOMAIN escrows) \X Vaults, dst \in DOMAIN tokens}

Idle == \A i \in Slots : txs[i].status = "empty"

\* A client submits a transaction carrying one instruction.
SubmitInitialize ==
    /\ Idle
    /\ \E c \in InitializeCalls :
        /\ Cardinality(DOMAIN escrows) < MaxEscrows
              \/ c.escrow \in DOMAIN escrows
        /\ txs' = [txs EXCEPT ![1] = [call |-> c, status |-> "pending",
                                      err |-> ""]]
        /\ UNCHANGED <<escrows, tokens, clock, moved, succ, dup_check>>

SubmitRelease ==
    /\ Idle
    /\ \E c \in SettleCalls("release") :
        /\ txs' = [txs EXCEPT ![1] = [call |-> c, status |-> "pending",
                                      err |-> ""]]
        /\ UNCHANGED <<escrows, tokens, clock, moved, succ, dup_check>>

SubmitCancel ==
    /\ Idle
    /\ \E c \in SettleCalls("cancel") :
        /\ txs' = [txs EXCEPT ![1] = [call |-> c, status |-> "pending",
                                      err |-> ""]]
        /\ UNCHANGED <<escrows, tokens, clock, moved, succ, dup_check>>

\* Call c is a release or a cancel that passes the accounts validation, on
\* a record that is Locked.
Contends(c) ==
    /\ c.op \in {"release", "cancel"}
    /\ c.escrow \in DOMAIN escrows
    /\ escrows[c.escrow].state = "Locked"
    /\ Accounts(State, c).err = ""

\* A second release or cancel is submitted against the same Locked record
\* while the first is still in flight.
SubmitConcurrent ==
    /\ txs[1].status = "pending"
    /\ txs[2].status = "empty"
    /\ Contends(txs[1].call)
    /\ \E c \in SettleCalls("release") \cup SettleCalls("cancel") :
        /\ Contends(c)
        /\ c.escrow = txs[1].call.escrow
        /\ txs' = [txs EXCEPT ![2] = [call |-> c, status |-> "pending",
                                      err |-> ""]]
        /\ UNCHANGED <<escrows, tokens, clock, moved, succ, dup_check>>

Balance(tk, k) == IF k \in DOMAIN tk THEN tk[k].amount ELSE 0

\* The units that leave the vault of record e between pre and post.
Outflow(pre, post, e) ==
    IF Balance(pre, VaultPda(e)) > Balance(post, VaultPda(e))
        THEN Balance(pre, VaultPda(e)) - Balance(post, VaultPda(e))
        ELSE 0

\* The runtime processes one transaction in flight, atomically; the
\* transactions that write the same accounts are processed one at a time,
\* in any order.
Process(i) ==
    /\ txs[i].status = "pending"
    /\ LET c == txs[i].call
           r == Dispatch(State, c, clock)
           post == Commit(State, r)
       IN /\ escrows' = post.escrows
          /\ tokens' = post.tokens
          /\ txs' = [txs EXCEPT ![i] = [call |-> Receipt(c),
                                        status |-> "done", err |-> r.err]]
          /\ moved' = [e \in DOMAIN post.escrows |->
                         (IF e \in DOMAIN moved THEN moved[e] ELSE 0)
                         + Outflow(tokens, post.tokens, e)]
          /\ succ' = [e \in DOMAIN post.escrows |->
                         (IF e \in DOMAIN succ THEN succ[e] ELSE 0)
                         + (IF r.err = "" /\ c.op \in {"release", "cancel"}
                               /\ c.escrow = e THEN 1 ELSE 0)]
    /\ UNCHANGED <<clock, dup_check>>

ProcessTx == \E i \in Slots : Process(i)

\* The clients receive the results.
Return ==
    /\ ~Idle
    /\ \A i \in Slots : txs[i].status # "pending"
    /\ txs' = [i \in Slots |-> Empty]
    /\ UNCHANGED <<escrows, tokens, clock, moved, succ, dup_check>>

\* Time passes.
Tick ==
    /\ Idle
    /\ clock < MaxClock
    /\ clock' = clock + 1
    /\ UNCHANGED <<escrows, tokens, txs, moved, succ, dup_check>>

Next ==
    \/ SubmitInitialize
    \/ SubmitRelease
    \/ SubmitCancel
    \/ SubmitConcurrent
    \/ ProcessTx
    \/ Return
    \/ Tick

Spec == Init /\ [][Next]_vars

\* ------------------------------------------------------------------------
\* Properties
\* ------------------------------------------------------------------------
\* The step processes the transaction in slot i.
Processed(i) == txs[i].status = "pending" /\ txs'[i].status = "done"

\* The step changes no record and no balance.
NoEffect == escrows' = escrows /\ tokens' = tokens

\* The units held in the token accounts whose authority is wallet w.
RECURSIVE SumOver(_, _)
SumOver(tk, ks) ==
    IF ks = {} THEN 0
    ELSE LET k == CHOOSE k \in ks : TRUE
         IN tk[k].amount + SumOver(tk, ks \ {k})

Holdings(tk, w) == SumOver(tk, {k \in DOMAIN tk : tk[k].owner = w})

\* C1: in every reachable state the vault of every record holds exactly the
\* record's amount while the record is Locked, and 0 once it is Released or
\* Cancelled.
C1_VaultMatchesState ==
    \A e \in DOMAIN escrows :
        Balance(tokens, VaultPda(e)) =
            IF escrows[e].state = "Locked" THEN escrows[e].amount ELSE 0

\* C2: a record, once created, is never deleted, and its state changes only
\* from Locked to Released, in a step that processes a successful release
\* of that record, or from Locked to Cancelled, in a step that processes a
\* successful cancel of it; a Released or Cancelled record never changes
\* state again.
C2_Step ==
    \A e \in DOMAIN escrows :
        /\ e \in DOMAIN escrows'
        /\ escrows'[e].state # escrows[e].state =>
            /\ escrows[e].state = "Locked"
            /\ \E i \in Slots :
                /\ Processed(i)
                /\ txs[i].call.escrow = e
                /\ txs'[i].err = ""
                /\ \/ txs[i].call.op = "release"
                      /\ escrows'[e].state = "Released"
                   \/ txs[i].call.op = "cancel"
                      /\ escrows'[e].state = "Cancelled"

C2_Transitions == [][C2_Step]_vars

\* C2 witness: a release or a cancel was processed on a record that was no
\* longer Locked, and was refused.
C2_Witness ==
    \E i \in Slots :
        /\ txs[i].status = "done"
        /\ txs[i].call.op \in {"release", "cancel"}
        /\ txs[i].err = "NotLocked"
        /\ escrows[txs[i].call.escrow].state \in {"Released", "Cancelled"}

\* C3: every successful release moves exactly the record's amount from the
\* vault into a token account whose owner is the record's seller and sets
\* the state to Released; a release whose destination is not owned by the
\* record's seller fails and changes no record and no balance.
C3_Step ==
    \A i \in Slots :
        Processed(i) /\ txs[i].call.op = "release" =>
            LET c == txs[i].call IN
            /\ txs'[i].err = "" =>
                /\ tokens[c.account].owner = escrows[c.escrow].seller
                /\ tokens'[c.vault].amount =
                       tokens[c.vault].amount - escrows[c.escrow].amount
                /\ tokens'[c.account].amount =
                       tokens[c.account].amount + escrows[c.escrow].amount
                /\ escrows'[c.escrow].state = "Released"
            /\ (/\ c.escrow \in DOMAIN escrows
                /\ c.account \in DOMAIN tokens
                /\ tokens[c.account].owner # escrows[c.escrow].seller) =>
                    txs'[i].err # "" /\ NoEffect

C3_ReleasePaysSeller == [][C3_Step]_vars

\* C4: for every record at most one release or cancel succeeds; a release
\* or cancel processed after the successful one fails, with NotLocked when
\* its accounts are accepted, and changes no record and no balance; the
\* units that ever left the vault never exceed the record's amount, and are
\* exactly the amount once a release or cancel has succeeded.
C4_Step ==
    /\ \A e \in DOMAIN succ' :
        /\ succ'[e] <= 1
        /\ moved'[e] <= escrows'[e].amount
        /\ succ'[e] = 1 => moved'[e] = escrows'[e].amount
    /\ \A i \in Slots :
        (/\ Processed(i)
         /\ txs[i].call.op \in {"release", "cancel"}
         /\ txs[i].call.escrow \in DOMAIN succ
         /\ succ[txs[i].call.escrow] >= 1) =>
            /\ txs'[i].err # ""
            /\ Accounts(State, txs[i].call).err = "" =>
                   txs'[i].err = "NotLocked"
            /\ NoEffect

C4_AtMostOnce == [][C4_Step]_vars

\* C5: when two release/cancel calls submitted against the same Locked
\* record have both been processed, in either order, exactly one of them
\* has succeeded, the other has failed with NotLocked, and the vault has
\* been debited once, by the record's amount.
C5_ExactlyOneSucceeds ==
    (\A i \in Slots : txs[i].status = "done") =>
        LET e == txs[1].call.escrow IN
        /\ \E i \in Slots :
            /\ txs[i].err = ""
            /\ \A j \in Slots \ {i} : txs[j].err = "NotLocked"
        /\ moved[e] = escrows[e].amount

\* The call is a release or a cancel that the buyer of its record did not
\* sign.
Unauthorized(c) ==
    /\ c.op \in {"release", "cancel"}
    /\ c.escrow \in DOMAIN escrows
    /\ ~c.signed \/ c.buyer # escrows[c.escrow].buyer

\* The step moves units out of the vault of record e, and the token accounts
\* of its seller hold more after the step than before.
SellerGains(e) ==
    /\ Outflow(tokens, tokens', e) > 0
    /\ Holdings(tokens', escrows[e].seller) > Holdings(tokens, escrows[e].seller)

\* The step processes a call of instruction op on record e, signed by the
\* buyer of e.
BuyerAuthorized(op, e) ==
    \E i \in Slots :
        /\ Processed(i)
        /\ txs[i].call.op = op
        /\ txs[i].call.escrow = e
        /\ txs[i].call.signed
        /\ txs[i].call.buyer = escrows[e].buyer

C6_Rejected ==
    \A i \in Slots :
        Processed(i) /\ Unauthorized(txs[i].call) =>
            txs'[i].err # "" /\ NoEffect

\* C6, as stated: a release or cancel that the record's buyer did not sign
\* fails and changes no record and no balance; and the seller's balance
\* increases from an escrow only in a release of that escrow signed by its
\* buyer.
C6_Step ==
    /\ C6_Rejected
    /\ \A e \in DOMAIN escrows :
        SellerGains(e) => BuyerAuthorized("release", e)

C6_StepAmended ==
    /\ C6_Rejected
    /\ \A e \in DOMAIN escrows :
        SellerGains(e) =>
            \/ BuyerAuthorized("release", e)
            \/ escrows[e].buyer = escrows[e].seller
               /\ BuyerAuthorized("cancel", e)

CancelEffects(c) ==
    /\ tokens[c.account].owner = escrows[c.escrow].buyer
    /\ tokens'[c.vault].amount =
           tokens[c.vault].amount - escrows[c.escrow].amount
    /\ tokens'[c.account].amount =
           tokens[c.account].amount + escrows[c.escrow].amount
    /\ escrows'[c.escrow].state = "Cancelled"

\* A cancel whose accounts are accepted succeeds on a Locked record; the
\* clock and the deadline play no part.
CancelSucceeds(i) ==
    (/\ Accounts(State, txs[i].call).err = ""
     /\ escrows[txs[i].call.escrow].state = "Locked") => txs'[i].err = ""

\* C7, as stated: every successful cancel moves exactly the record's amount
\* from the vault into a token account owned by the record's buyer, sets
\* the state to Cancelled and leaves the seller's balance unchanged; a
\* cancel of a Locked record succeeds whatever the time.
C7_Step ==
    \A i \in Slots :
        Processed(i) /\ txs[i].call.op = "cancel" =>
            LET c == txs[i].call IN
            /\ txs'[i].err = "" =>
                /\ CancelEffects(c)
                /\ Holdings(tokens', escrows[c.escrow].seller) =
                       Holdings(tokens, escrows[c.escrow].seller)
            /\ CancelSucceeds(i)

C7_StepAmended ==
    \A i \in Slots :
        Processed(i) /\ txs[i].call.op = "cancel" =>
            LET c == txs[i].call IN
            /\ txs'[i].err = "" =>
                /\ CancelEffects(c)
                /\ escrows[c.escrow].seller # escrows[c.escrow].buyer =>
                       Holdings(tokens', escrows[c.escrow].seller) =
                           Holdings(tokens, escrows[c.escrow].seller)
            /\ CancelSucceeds(i)

ValidInitialize(c) ==
    /\ c.op = "initialize"
    /\ c.signed
    /\ c.amount > 0
    /\ clock < c.deadline
    /\ c.deadline <= clock + 7776000
    /\ c.escrow = EscrowPda(c.buyer, c.seller, c.mint)
    /\ c.escrow \notin DOMAIN escrows
    /\ c.account \in DOMAIN tokens
    /\ tokens[c.account].owner = c.buyer
    /\ tokens[c.account].mint = c.mint
    /\ tokens[c.account].amount >= c.amount

\* C8: a valid initialize succeeds: it creates the record of the tuple,
\* Locked, with the buyer, seller, mint, amount and deadline given; the
\* buyer's token account holds amount less, and the vault holds amount.
C8_Step ==
    \A i \in Slots :
        Processed(i) /\ ValidInitialize(txs[i].call) =>
            LET c == txs[i].call IN
            /\ txs'[i].err = ""
            /\ c.escrow \in DOMAIN escrows'
            /\ escrows'[c.escrow] =
                   [buyer |-> c.buyer, seller |-> c.seller, mint |-> c.mint,
                    amount |-> c.amount, deadline |-> c.deadline,
                    state |-> "Locked"]
            /\ tokens'[c.account].amount = tokens[c.account].amount - c.amount
            /\ VaultPda(c.escrow) \in DOMAIN tokens'
            /\ tokens'[VaultPda(c.escrow)].amount = c.amount

C8_InitializeLocks == [][C8_Step]_vars

\* C8 witness: an initialize has succeeded with a deadline exactly 90 days
\* after the time of the call.
C8_Witness ==
    \E i \in Slots :
        /\ txs[i].status = "done"
        /\ txs[i].call.op = "initialize"
        /\ txs[i].err = ""
        /\ escrows[txs[i].call.escrow].state = "Locked"
        /\ escrows[txs[i].call.escrow].deadline = clock + 7776000

\* C9: an initialize for a tuple that has a record fails and changes no
\* record and no balance, whatever the state of the record and the
\* parameters of the call; no step removes a record or makes Locked a
\* record that is Released or Cancelled.
C9_Step ==
    /\ \A i \in Slots :
        (/\ Processed(i)
         /\ txs[i].call.op = "initialize"
         /\ EscrowPda(txs[i].call.buyer, txs[i].call.seller,
                      txs[i].call.mint) \in DOMAIN escrows) =>
            txs'[i].err # "" /\ NoEffect
    /\ \A e \in DOMAIN escrows :
        /\ e \in DOMAIN escrows'
        /\ escrows[e].state # "Locked" => escrows'[e].state # "Locked"

C9_DuplicateRejected == [][C9_Step]_vars

\* C9 witness: an initialize the buyer signed was refused because the
\* record of its tuple exists, and that record is Released.
C9_Witness ==
    \E i \in Slots :
        /\ txs[i].status = "done"
        /\ txs[i].call.op = "initialize"
        /\ txs[i].err = "AccountAlreadyInUse"
        /\ txs[i].call.escrow \in DOMAIN escrows
        /\ escrows[txs[i].call.escrow].state = "Released"

\* C10: an instruction that fails, for whatever reason, creates no record,
\* changes no record and changes no balance.
C10_Step ==
    \A i \in Slots :
        Processed(i) /\ txs'[i].err # "" => NoEffect

C11_Step ==
    \A i \in Slots :
        (/\ Processed(i)
         /\ txs[i].call.op = "initialize"
         /\ txs[i].call.amount = 0) =>
            txs'[i].err = "ZeroAmount" /\ NoEffect

C11_ZeroAmount == [][C11_Step]_vars

\* C11, amended: every initialize with amount = 0 fails, creates no record
\* and moves no funds, whatever the deadline and the other inputs; it fails
\* with ZeroAmount when its accounts pass the validation, and with the error
\* of the validation, which comes first, when they do not.
C11_StepAmended ==
    \A i \in Slots :
        (/\ Processed(i)
         /\ txs[i].call.op = "initialize"
         /\ txs[i].call.amount = 0) =>
            /\ txs'[i].err # ""
            /\ NoEffect
            /\ txs'[i].err =
                   IF Accounts(State, txs[i].call).err = ""
                       THEN "ZeroAmount"
                       ELSE Accounts(State, txs[i].call).err

C11_ZeroAmountAmended == [][C11_StepAmended]_vars

\* C11 witness: an initialize with amount = 0 and a deadline the handler
\* would accept was refused with ZeroAmount, and its tuple has no record.
C11_Witness ==
    \E i \in Slots :
        /\ txs[i].status = "done"
        /\ txs[i].call.op = "initialize"
        /\ txs[i].call.amount = 0
        /\ txs[i].call.deadline > clock
        /\ txs[i].call.deadline <= clock + 7776000
        /\ txs[i].err = "ZeroAmount"
        /\ txs[i].call.escrow \notin DOMAIN escrows

\* C12, as stated: every initialize with deadline <= now fails with
\* DeadlineInPast, and every initialize with deadline > now + 7,776,000
\* fails with DeadlineTooFar; neither creates a record or moves funds.
C12_Step ==
    \A i \in Slots :
        Processed(i) /\ txs[i].call.op = "initialize" =>
            /\ txs[i].call.deadline <= clock =>
                   txs'[i].err = "DeadlineInPast" /\ NoEffect
            /\ txs[i].call.deadline > clock + 7776000 =>
                   txs'[i].err = "DeadlineTooFar" /\ NoEffect

C12_DeadlineErrors == [][C12_Step]_vars

\* C12, amended: every initialize with deadline <= now or with
\* deadline > now + 7,776,000 fails, creates no record and moves no funds;
\* when its accounts pass the validation and its amount is > 0 it fails
\* with DeadlineInPast in the first case and DeadlineTooFar in the second.
C12_StepAmended ==
    \A i \in Slots :
        Processed(i) /\ txs[i].call.op = "initialize" =>
            LET c == txs[i].call
                handled == Accounts(State, c).err = "" /\ c.amount > 0
            IN
            /\ c.deadline <= clock =>
                /\ txs'[i].err # ""
                /\ NoEffect
                /\ handled => txs'[i].err = "DeadlineInPast"
            /\ c.deadline > clock + 7776000 =>
                /\ txs'[i].err # ""
                /\ NoEffect
                /\ handled => txs'[i].err = "DeadlineTooFar"

C12_DeadlineErrorsAmended == [][C12_StepAmended]_vars

\* C12 witness: an initialize with amount > 0 and deadline = now was refused
\* with DeadlineInPast, and its tuple has no record.
C12_Witness ==
    \E i \in Slots :
        /\ txs[i].status = "done"
        /\ txs[i].call.op = "initialize"
        /\ txs[i].call.amount > 0
        /\ txs[i].call.deadline = clock
        /\ txs[i].err = "DeadlineInPast"
        /\ txs[i].call.escrow \notin DOMAIN escrows

\* The token accounts of mint m whose authority is wallet w.
AccountsOf(w, m) ==
    {k \in DOMAIN tokens : tokens[k].owner = w /\ tokens[k].mint = m}

\* The release, or the cancel, of record e that its buyer signs, with the
\* record's mint and vault and destination dst.
BuyerCall(op, e, dst) ==
    SettleCall(op, escrows[e].buyer, TRUE, escrows[e].mint, e, VaultPda(e),
               dst)

\* In the current state, whatever the time, the release of every Locked
\* record to a token account of its seller, and its cancel to a token
\* account of its buyer, would succeed.
C13_Enabled ==
    \A e \in DOMAIN escrows :
        escrows[e].state = "Locked" =>
            \A now \in (0..MaxClock) \cup Deadlines :
                /\ AccountsOf(escrows[e].seller, escrows[e].mint) # {}
                /\ \A dst \in AccountsOf(escrows[e].seller, escrows[e].mint) :
                       Dispatch(State, BuyerCall("release", e, dst), now).err
                           = ""
                /\ AccountsOf(escrows[e].buyer, escrows[e].mint) # {}
                /\ \A dst \in AccountsOf(escrows[e].buyer, escrows[e].mint) :
                       Dispatch(State, BuyerCall("cancel", e, dst), now).err
                           = ""

\* A step that advances the clock changes no record and no balance.
C13_ClockStep == clock' # clock => NoEffect

C14_Step ==
    \A i \in Slots :
        Processed(i) =>
            \A b \in DOMAIN escrows \ {txs[i].call.escrow} :
                /\ b \in DOMAIN escrows'
                /\ escrows'[b] = escrows[b]
                /\ Balance(tokens', VaultPda(b)) = Balance(tokens, VaultPda(b))

C14_OtherEscrowsUntouched == [][C14_Step]_vars

\* The call is a release or a cancel of an existing record in which the
\* mint supplied, or the mint of the destination token account, is not the
\* record's mint.
WrongMint(c) ==
    /\ c.op \in {"release", "cancel"}
    /\ c.escrow \in DOMAIN escrows
    /\ c.account \in DOMAIN tokens
    /\ \/ c.mint # escrows[c.escrow].mint
       \/ tokens[c.account].mint # escrows[c.escrow].mint

\* C15: a release or cancel in which the mint supplied, or the mint of the
\* destination, differs from the record's mint is refused by the accounts
\* validation, before the handler runs, and changes no record and no
\* balance; in every instruction that succeeds, the mint supplied, the
\* mint of the vault and the mint of the other token account are the
\* record's mint.
C15_Step ==
    \A i \in Slots :
        Processed(i) =>
            LET c == txs[i].call IN
            /\ WrongMint(c) =>
                /\ Accounts(State, c).err # ""
                /\ txs'[i].err = Accounts(State, c).err
                /\ NoEffect
            /\ txs'[i].err = "" =>
                /\ c.mint = escrows'[c.escrow].mint
                /\ tokens'[c.vault].mint = escrows'[c.escrow].mint
                /\ tokens'[c.account].mint = escrows'[c.escrow].mint

C15_MintMatches == [][C15_Step]_vars

\* C15 witness: a release or a cancel signed by the record's buyer, on a
\* Locked record, was refused because the destination token account is of
\* another mint.
C15_Witness ==
    \E i \in Slots :
        /\ txs[i].status = "done"
        /\ txs[i].call.op \in {"release", "cancel"}
        /\ txs[i].err = "ConstraintTokenMint"
        /\ escrows[txs[i].call.escrow].state = "Locked"

\* C16: every record that exists keeps its buyer, seller, mint, amount and
\* deadline in every step; an instruction, successful or not, changes no
\* field of an existing record but its state.
C16_Step ==
    \A e \in DOMAIN escrows :
        /\ e \in DOMAIN escrows'
        /\ escrows'[e].buyer = escrows[e].buyer
        /\ escrows'[e].seller = escrows[e].seller
        /\ escrows'[e].mint = escrows[e].mint
        /\ escrows'[e].amount = escrows[e].amount
        /\ escrows'[e].deadline = escrows[e].deadline

C16_FieldsImmutable == [][C16_Step]_vars

\* C16 witness: a release has succeeded, and its record, Released, names
\* the tuple its address derives from and has an amount > 0.
C16_Witness ==
    \E i \in Slots :
        /\ txs[i].status = "done"
        /\ txs[i].call.op = "release"
        /\ txs[i].err = ""
        /\ LET r == escrows[txs[i].call.escrow] IN
            /\ r.state = "Released"
            /\ r.amount > 0
            /\ txs[i].call.escrow = EscrowPda(r.buyer, r.seller, r.mint)

\* C17: after every step every record has amount > 0; a record the step
\* creates has a deadline strictly later than the time of the step and at
\* most 7,776,000 s after it, and a record that existed before the step
\* keeps its deadline.
C17_Step ==
    \A e \in DOMAIN escrows' :
        /\ escrows'[e].amount > 0
        /\ e \notin DOMAIN escrows =>
            /\ clock' = clock
            /\ escrows'[e].deadline > clock
            /\ escrows'[e].deadline <= clock + 7776000
        /\ e \in DOMAIN escrows =>
            escrows'[e].deadline = escrows[e].deadline

C17_RecordsWellFormed == [][C17_Step]_vars

\* C17 witness: a record exists whose deadline, in the future when it was
\* created, is now in the past.
C17_Witness ==
    \E e \in DOMAIN escrows :
        /\ escrows[e].amount > 0
        /\ escrows[e].deadline < clock

\* The units of mint m held in all the token accounts, vaults included.
Supply(tk, m) == SumOver(tk, {k \in DOMAIN tk : tk[k].mint = m})

\* C18: every step leaves the sum of the balances of all the token
\* accounts of each mint, vaults included, as it was; and a step that
\* processes an instruction that fails changes no balance at all.
C18_Step ==
    /\ \A m \in Mints : Supply(tokens', m) = Supply(tokens, m)
    /\ \A i \in Slots :
        Processed(i) /\ txs'[i].err # "" => tokens' = tokens

C18_Conservation == [][C18_Step]_vars

\* C18 witness: a cancel has succeeded and has moved units out of the vault
\* of its record, which holds none any more.
C18_Witness ==
    \E i \in Slots :
        /\ txs[i].status = "done"
        /\ txs[i].call.op = "cancel"
        /\ txs[i].err = ""
        /\ moved[txs[i].call.escrow] > 0
        /\ tokens[VaultPda(txs[i].call.escrow)].amount = 0

\* The error the claimed precedence selects: ZeroAmount if amount = 0,
\* otherwise DeadlineInPast if deadline <= now, otherwise DeadlineTooFar if
\* deadline > now + 7,776,000, otherwise none.
PrecedenceError(amount, deadline, now) ==
    IF amount = 0 THEN "ZeroAmount"
    ELSE IF deadline <= now THEN "DeadlineInPast"
    ELSE IF deadline > now + 7776000 THEN "DeadlineTooFar"
    ELSE ""

\* C19, as stated: an initialize that violates one or several of the
\* handler's preconditions fails with the single error the precedence
\* selects, a function of (amount, deadline, now) alone; a deadline <= now
\* is never reported as DeadlineTooFar.
C19_Step ==
    \A i \in Slots :
        Processed(i) /\ txs[i].call.op = "initialize" =>
            LET c == txs[i].call IN
            /\ PrecedenceError(c.amount, c.deadline, clock) # "" =>
                   txs'[i].err = PrecedenceError(c.amount, c.deadline, clock)
            /\ c.deadline <= clock => txs'[i].err # "DeadlineTooFar"

C19_Precedence == [][C19_Step]_vars

\* C19, amended: an initialize whose accounts pass the validation and that
\* violates one or several of the handler's preconditions fails with the
\* single error the precedence selects, a function of (amount, deadline,
\* now) alone; one whose accounts do not pass fails with the error of the
\* validation, whatever its amount and deadline; a deadline <= now is
\* never reported as DeadlineTooFar.
C19_StepAmended ==
    \A i \in Slots :
        Processed(i) /\ txs[i].call.op = "initialize" =>
            LET c == txs[i].call IN
            /\ (/\ Accounts(State, c).err = ""
                /\ PrecedenceError(c.amount, c.deadline, clock) # "") =>
                   txs'[i].err = PrecedenceError(c.amount, c.deadline, clock)
            /\ Accounts(State, c).err # "" =>
                   txs'[i].err = Accounts(State, c).err
            /\ c.deadline <= clock => txs'[i].err # "DeadlineTooFar"

C19_PrecedenceAmended == [][C19_StepAmended]_vars

\* C19 witness: an initialize with amount = 0 and a deadline <= now, which
\* violates two preconditions of the handler, was refused with ZeroAmount.
C19_Witness ==
    \E i \in Slots :
        /\ txs[i].status = "done"
        /\ txs[i].call.op = "initialize"
        /\ txs[i].call.amount = 0
        /\ txs[i].call.deadline <= clock
        /\ txs[i].err = "ZeroAmount"

====
